---- MODULE Spec2Model ----
(***************************************************************************)
(* Model of the Soyio docs bot: the LLM-output recovery pipeline of        *)
(* generateSuggestions (fence strip, backtick purge, newline escaper,      *)
(* JSON decode ladder, enrichment) and the run() pipeline with its comment *)
(* upsert.                                                                 *)
(*                                                                         *)
(* Text is a sequence of symbols.  A symbol is one significant character   *)
(* (quote, backslash, LF, CR, space, backtick (written tick), a JSON        *)
(* structural character, a digit, the letters n and r) or an atomic run of *)
(* ordinary characters (a word such as summary or json).                   *)
(***************************************************************************)
EXTENDS Integers, Sequences, FiniteSets, TLC

DQ == "\""
BS == "\\"
LF == "\n"
CR == "\r"
SP == " "
BT == "tick"

WhiteSpace == {SP, LF, CR}
Digits == {"0", "1"}

(***************************************************************************)
(* String primitives of the JavaScript runtime, on symbol sequences.       *)
(***************************************************************************)
RECURSIVE TrimStart(_)
TrimStart(s) ==
  IF s # <<>> /\ Head(s) \in WhiteSpace THEN TrimStart(Tail(s)) ELSE s

RECURSIVE TrimEnd(_)
TrimEnd(s) ==
  IF s # <<>> /\ s[Len(s)] \in WhiteSpace
  THEN TrimEnd(SubSeq(s, 1, Len(s) - 1))
  ELSE s

Trim(s) == TrimEnd(TrimStart(s))

\* s.indexOf(ch), s.lastIndexOf(ch): 0-based, -1 when absent
Positions(s, ch) == {i \in 1..Len(s) : s[i] = ch}

IndexOf(s, ch) ==
  LET ps == Positions(s, ch)
  IN IF ps = {} THEN -1 ELSE (CHOOSE i \in ps : \A j \in ps : i <= j) - 1

LastIndexOf(s, ch) ==
  LET ps == Positions(s, ch)
  IN IF ps = {} THEN -1 ELSE (CHOOSE i \in ps : \A j \in ps : i >= j) - 1

\* s.slice(from, to) for non-negative 0-based from, to
Slice(s, from, to) ==
  IF to <= from THEN <<>>
  ELSE SubSeq(s, from + 1, IF to > Len(s) THEN Len(s) ELSE to)

\* parts.map(p => p.text).join(LF)
RECURSIVE JoinLF(_)
JoinLF(parts) ==
  IF parts = <<>> THEN <<>>
  ELSE IF Len(parts) = 1 THEN parts[1]
  ELSE parts[1] \o <<LF>> \o JoinLF(Tail(parts))

\* a triple backtick starts at 1-based position i
FenceAt(s, i) ==
  /\ i >= 1
  /\ i + 2 <= Len(s)
  /\ s[i] = BT /\ s[i + 1] = BT /\ s[i + 2] = BT

\* 1-based position of the first triple backtick at or after i, 0 when none
NextFence(s, i) ==
  LET ps == {p \in i..(Len(s) - 2) : FenceAt(s, p)}
  IN IF ps = {} THEN 0 ELSE CHOOSE p \in ps : \A q \in ps : p <= q

HasFence(s) == NextFence(s, 1) # 0

RECURSIVE SkipSpace(_, _)
SkipSpace(s, i) ==
  IF i <= Len(s) /\ s[i] \in WhiteSpace THEN SkipSpace(s, i + 1) ELSE i

\* variant: the group runs to the last closing fence, not to the first
FenceMatchLast(s) ==
  LET open == NextFence(s, 1)
      afterTag == IF open # 0 /\ open + 3 <= Len(s) /\ s[open + 3] \in {"json", "JSON"}
                  THEN open + 4 ELSE open + 3
      start == SkipSpace(s, afterTag)
      closes == {p \in start..(Len(s) - 2) : FenceAt(s, p)}
      close == IF open = 0 \/ closes = {} THEN 0
               ELSE CHOOSE p \in closes : \A q \in closes : p >= q
  IN IF open = 0 \/ close = 0
     THEN [found |-> FALSE, group |-> <<>>]
     ELSE [found |-> TRUE, group |-> SubSeq(s, start, close - 1)]

\* rawText.match of the fence pattern (three backticks, an optional json tag,
\* whitespace, a lazy group, three backticks): the first opening fence
\* that has a closing fence behind it; group 1 is the text between the
\* optional tag plus whitespace and the first closing fence.
FenceMatch(s) ==
  LET open == NextFence(s, 1)
      afterTag == IF open # 0 /\ open + 3 <= Len(s) /\ s[open + 3] \in {"json", "JSON"}
                  THEN open + 4 ELSE open + 3
      start == SkipSpace(s, afterTag)
      close == IF open = 0 THEN 0 ELSE NextFence(s, start)
  IN IF open = 0 \/ close = 0
     THEN [found |-> FALSE, group |-> <<>>]
     ELSE [found |-> TRUE, group |-> SubSeq(s, start, close - 1)]

\* replace of every triple backtick by the empty string: the matches are
\* found left to right and do not overlap
RECURSIVE FenceStarts(_, _)
FenceStarts(s, i) ==
  LET p == NextFence(s, i)
  IN IF p = 0 THEN {} ELSE {p} \cup FenceStarts(s, p + 3)

RemoveFences(s) ==
  LET starts == FenceStarts(s, 1)
      kept == SelectSeq([i \in 1..Len(s) |-> i],
                        LAMBDA i : \A p \in starts : i < p \/ i > p + 2)
  IN [k \in 1..Len(kept) |-> s[kept[k]]]

(***************************************************************************)
(* escapeNewlinesInStrings: one left-to-right scan with the two flags      *)
(* inString and escaped.  EscapeStep is the body of the loop for one       *)
(* character; EscapeRange runs the loop over input[lo..hi], threading the  *)
(* scanner state from left to right.                                       *)
(***************************************************************************)
ScanStart == [inString |-> FALSE, escaped |-> FALSE, out |-> <<>>]

\* variant: a line feed is escaped wherever it stands, in a string or not
EscapeStepAnywhere(st, ch) ==
  IF ch = LF
  THEN [inString |-> st.inString, escaped |-> FALSE, out |-> st.out \o <<BS, "n">>]
  ELSE IF ~st.inString
  THEN [inString |-> (ch = DQ), escaped |-> st.escaped, out |-> Append(st.out, ch)]
  ELSE IF st.escaped
  THEN [inString |-> TRUE, escaped |-> FALSE, out |-> Append(st.out, ch)]
  ELSE IF ch = BS
  THEN [inString |-> TRUE, escaped |-> TRUE, out |-> Append(st.out, ch)]
  ELSE IF ch = DQ
  THEN [inString |-> FALSE, escaped |-> FALSE, out |-> Append(st.out, ch)]
  ELSE IF ch = CR
  THEN st
  ELSE [inString |-> TRUE, escaped |-> FALSE, out |-> Append(st.out, ch)]

\* variant: a line feed inside a string is copied like any other character
EscapeStepKeepsNewline(st, ch) ==
  IF ~st.inString
  THEN [inString |-> (ch = DQ), escaped |-> st.escaped, out |-> Append(st.out, ch)]
  ELSE IF st.escaped
  THEN [inString |-> TRUE, escaped |-> FALSE, out |-> Append(st.out, ch)]
  ELSE IF ch = BS
  THEN [inString |-> TRUE, escaped |-> TRUE, out |-> Append(st.out, ch)]
  ELSE IF ch = DQ
  THEN [inString |-> FALSE, escaped |-> FALSE, out |-> Append(st.out, ch)]
  ELSE IF ch = LF
  THEN [inString |-> TRUE, escaped |-> FALSE, out |-> Append(st.out, ch)]
  ELSE IF ch = CR
  THEN st
  ELSE [inString |-> TRUE, escaped |-> FALSE, out |-> Append(st.out, ch)]

\* variant: a carriage return inside a string is copied like any other character
EscapeStepKeepsCR(st, ch) ==
  IF ~st.inString
  THEN [inString |-> (ch = DQ), escaped |-> st.escaped, out |-> Append(st.out, ch)]
  ELSE IF st.escaped
  THEN [inString |-> TRUE, escaped |-> FALSE, out |-> Append(st.out, ch)]
  ELSE IF ch = BS
  THEN [inString |-> TRUE, escaped |-> TRUE, out |-> Append(st.out, ch)]
  ELSE IF ch = DQ
  THEN [inString |-> FALSE, escaped |-> FALSE, out |-> Append(st.out, ch)]
  ELSE IF ch = LF
  THEN [inString |-> TRUE, escaped |-> FALSE, out |-> st.out \o <<BS, "n">>]
  ELSE IF ch = CR
  THEN [inString |-> TRUE, escaped |-> FALSE, out |-> Append(st.out, ch)]
  ELSE [inString |-> TRUE, escaped |-> FALSE, out |-> Append(st.out, ch)]

\* variant: a carriage return is dropped wherever it stands
EscapeStepDropsAnyCR(st, ch) ==
  IF ch = CR
  THEN st
  ELSE IF ~st.inString
  THEN [inString |-> (ch = DQ), escaped |-> st.escaped, out |-> Append(st.out, ch)]
  ELSE IF st.escaped
  THEN [inString |-> TRUE, escaped |-> FALSE, out |-> Append(st.out, ch)]
  ELSE IF ch = BS
  THEN [inString |-> TRUE, escaped |-> TRUE, out |-> Append(st.out, ch)]
  ELSE IF ch = DQ
  THEN [inString |-> FALSE, escaped |-> FALSE, out |-> Append(st.out, ch)]
  ELSE IF ch = LF
  THEN [inString |-> TRUE, escaped |-> FALSE, out |-> st.out \o <<BS, "n">>]
  ELSE IF ch = CR
  THEN st
  ELSE [inString |-> TRUE, escaped |-> FALSE, out |-> Append(st.out, ch)]

\* variant: a backslash is an ordinary character, every double quote toggles
EscapeStepNoEscapes(st, ch) ==
  IF ~st.inString
  THEN [inString |-> (ch = DQ), escaped |-> st.escaped, out |-> Append(st.out, ch)]
  ELSE IF ch = DQ
  THEN [inString |-> FALSE, escaped |-> FALSE, out |-> Append(st.out, ch)]
  ELSE IF ch = LF
  THEN [inString |-> TRUE, escaped |-> FALSE, out |-> st.out \o <<BS, "n">>]
  ELSE IF ch = CR
  THEN st
  ELSE [inString |-> TRUE, escaped |-> FALSE, out |-> Append(st.out, ch)]

EscapeStep(st, ch) ==
  IF ~st.inString
  THEN [inString |-> (ch = DQ), escaped |-> st.escaped, out |-> Append(st.out, ch)]
  ELSE IF st.escaped
  THEN [inString |-> TRUE, escaped |-> FALSE, out |-> Append(st.out, ch)]
  ELSE IF ch = BS
  THEN [inString |-> TRUE, escaped |-> TRUE, out |-> Append(st.out, ch)]
  ELSE IF ch = DQ
  THEN [inString |-> FALSE, escaped |-> FALSE, out |-> Append(st.out, ch)]
  ELSE IF ch = LF
  THEN [inString |-> TRUE, escaped |-> FALSE, out |-> st.out \o <<BS, "n">>]
  ELSE IF ch = CR
  THEN st
  ELSE [inString |-> TRUE, escaped |-> FALSE, out |-> Append(st.out, ch)]

RECURSIVE EscapeRange(_, _, _, _)
EscapeRange(input, lo, hi, st) ==
  IF lo > hi THEN st
  ELSE IF lo = hi THEN EscapeStep(st, input[lo])
  ELSE LET mid == (lo + hi) \div 2
           left == EscapeRange(input, lo, mid, st)
       \* the left part is scanned first, then the right part from its state
       IN IF left.inString \in BOOLEAN
          THEN EscapeRange(input, mid + 1, hi, left)
          ELSE left

escapeNewlinesInStrings(input) == EscapeRange(input, 1, Len(input), ScanStart).out

(***************************************************************************)
(* JSON values, tagged by t.  An object is a function from property names  *)
(* (symbol sequences) to values; Undefined is the value of a property      *)
(* that is not there.                                                      *)
(***************************************************************************)
JNull == [t |-> "null"]
Undefined == [t |-> "undefined"]
JBool(b) == [t |-> "bool", b |-> b]
JNum(n) == [t |-> "num", n |-> n]
JStr(cs) == [t |-> "str", s |-> cs]
JArr(es) == [t |-> "arr", a |-> es]
JObj(f) == [t |-> "obj", f |-> f]

EmptyProps == [k \in {} |-> JNull]

\* obj[key] = v on a property map (a repeated key keeps the last value)
SetProp(f, key, v) == [k \in (DOMAIN f) \cup {key} |-> IF k = key THEN v ELSE f[k]]

\* v.key for a value that is neither null nor undefined: own properties of
\* objects; the other JSON values have no property of these names
GetProp(v, key) ==
  IF v.t = "obj" /\ key \in DOMAIN v.f THEN v.f[key] ELSE Undefined

(***************************************************************************)
(* JSON.parse, by recursive descent.  A result is [ok, val, pos]: pos is   *)
(* the 1-based position after the value.                                   *)
(***************************************************************************)
ParseFail == [ok |-> FALSE, val |-> JNull, pos |-> 0]
ParseOk(v, p) == [ok |-> TRUE, val |-> v, pos |-> p]

\* the characters a backslash escape stands for; a word symbol that starts
\* with an escape letter decodes to the control character and the rest
Unescape(sym) ==
  CASE sym = DQ -> <<DQ>>
    [] sym = BS -> <<BS>>
    [] sym = "/" -> <<"/">>
    [] sym = "n" -> <<LF>>
    [] sym = "r" -> <<CR>>
    [] sym = "null" -> <<LF, "ull">>
    [] sym = "true" -> <<"\t", "rue">>
    [] sym = "false" -> <<"\f", "alse">>
    [] OTHER -> <<>>

\* s[i] is the character after the opening quote or after what acc holds
RECURSIVE ParseStringFrom(_, _, _)
ParseStringFrom(s, i, acc) ==
  IF i > Len(s) THEN ParseFail
  ELSE IF s[i] = DQ THEN ParseOk(JStr(acc), i + 1)
  ELSE IF s[i] = BS
  THEN IF i + 1 > Len(s) \/ Unescape(s[i + 1]) = <<>>
       THEN ParseFail
       ELSE ParseStringFrom(s, i + 2, acc \o Unescape(s[i + 1]))
  ELSE IF s[i] \in {LF, CR, "\t", "\f"} THEN ParseFail
  ELSE ParseStringFrom(s, i + 1, Append(acc, s[i]))

\* a number is 0 or a run of digits that does not start with 0
RECURSIVE DigitsEnd(_, _)
DigitsEnd(s, i) ==
  IF i <= Len(s) /\ s[i] \in Digits THEN DigitsEnd(s, i + 1) ELSE i

RECURSIVE NumberValue(_, _)
NumberValue(ds, acc) ==
  IF ds = <<>> THEN acc
  ELSE NumberValue(Tail(ds), 10 * acc + (IF Head(ds) = "1" THEN 1 ELSE 0))

ParseNumber(s, i) ==
  LET e == IF s[i] = "0" THEN i + 1 ELSE DigitsEnd(s, i)
  IN ParseOk(JNum(NumberValue(SubSeq(s, i, e - 1), 0)), e)

RECURSIVE ParseValue(_, _)
RECURSIVE ParseMembers(_, _, _)
RECURSIVE ParseElements(_, _, _)

ParseValue(s, i0) ==
  LET i == SkipSpace(s, i0) IN
  IF i > Len(s) THEN ParseFail
  ELSE IF s[i] = "{"
  THEN LET j == SkipSpace(s, i + 1) IN
       IF j <= Len(s) /\ s[j] = "}"
       THEN ParseOk(JObj(EmptyProps), j + 1)
       ELSE ParseMembers(s, j, EmptyProps)
  ELSE IF s[i] = "["
  THEN LET j == SkipSpace(s, i + 1) IN
       IF j <= Len(s) /\ s[j] = "]"
       THEN ParseOk(JArr(<<>>), j + 1)
       ELSE ParseElements(s, j, <<>>)
  ELSE IF s[i] = DQ THEN ParseStringFrom(s, i + 1, <<>>)
  ELSE IF s[i] = "null" THEN ParseOk(JNull, i + 1)
  ELSE IF s[i] = "true" THEN ParseOk(JBool(TRUE), i + 1)
  ELSE IF s[i] = "false" THEN ParseOk(JBool(FALSE), i + 1)
  ELSE IF s[i] \in Digits THEN ParseNumber(s, i)
  ELSE ParseFail

\* s[i0..] is: string : value, then a comma and more members or the brace
ParseMembers(s, i0, f) ==
  LET i == SkipSpace(s, i0) IN
  IF i > Len(s) \/ s[i] # DQ THEN ParseFail
  ELSE LET key == ParseStringFrom(s, i + 1, <<>>) IN
    IF ~key.ok THEN ParseFail
    ELSE LET c == SkipSpace(s, key.pos) IN
      IF c > Len(s) \/ s[c] # ":" THEN ParseFail
      ELSE LET v == ParseValue(s, c + 1) IN
        IF ~v.ok THEN ParseFail
        ELSE LET m == SkipSpace(s, v.pos)
                 g == SetProp(f, key.val.s, v.val)
             IN IF m > Len(s) THEN ParseFail
                ELSE IF s[m] = "}" THEN ParseOk(JObj(g), m + 1)
                ELSE IF s[m] = "," THEN ParseMembers(s, m + 1, g)
                ELSE ParseFail

\* s[i0..] is: value, then a comma and more elements or the bracket
ParseElements(s, i0, es) ==
  LET v == ParseValue(s, i0) IN
  IF ~v.ok THEN ParseFail
  ELSE LET m == SkipSpace(s, v.pos)
           gs == Append(es, v.val)
       IN IF m > Len(s) THEN ParseFail
          ELSE IF s[m] = "]" THEN ParseOk(JArr(gs), m + 1)
          ELSE IF s[m] = "," THEN ParseElements(s, m + 1, gs)
          ELSE ParseFail

\* JSON.parse(text): one value with nothing but whitespace around it
JSONParse(text) ==
  LET r == ParseValue(text, 1) IN
  IF r.ok /\ SkipSpace(text, r.pos) > Len(text)
  THEN [ok |-> TRUE, val |-> r.val]
  ELSE [ok |-> FALSE, val |-> JNull]

(***************************************************************************)
(* generateSuggestions, stage by stage.                                    *)
(***************************************************************************)
Key(word) == <<word>>

\* a candidate is [hasParts, parts]: parts are the texts of content.parts
\* candidate.content?.parts?.map(p => p.text).join(LF).trim() || ''
ExtractRawText(candidate) ==
  IF candidate.hasParts THEN Trim(JoinLF(candidate.parts)) ELSE <<>>

\* jsonMatch ? jsonMatch[1] : rawText
StripFences(raw) ==
  LET jsonMatch == FenceMatch(raw)
  IN IF jsonMatch.found THEN jsonMatch.group ELSE raw

\* jsonString.replace(fences, '').trim(): the argument of the escaper
Purge(jsonString) == Trim(RemoveFences(jsonString))

\* escapeNewlinesInStrings(jsonString.replace(fences, '').trim())
Sanitize(jsonString) == escapeNewlinesInStrings(Purge(jsonString))

\* JSON.parse(sanitized.trim())
DirectParse(sanitized) == JSONParse(Trim(sanitized))

SummaryParseError == "Unable to generate suggestions due to parsing error."
SummaryNoBraces == "Unable to generate suggestions - no valid response."

EmptyResponse(summary) ==
  JObj(SetProp(SetProp(SetProp(EmptyProps,
    Key("impact_level"), JStr(<<"none">>)),
    Key("summary"), JStr(<<summary>>)),
    Key("suggestions"), JArr(<<>>)))

\* variant: the slice ends at the first closing brace, not the last
BraceExtractFirstClose(sanitized) ==
  LET startIdx == IndexOf(sanitized, "{")
      endIdx == IndexOf(sanitized, "}")
      extracted == Slice(sanitized, startIdx, endIdx + 1)
      inner == JSONParse(extracted)
  IN IF startIdx # -1 /\ endIdx # -1
     THEN IF inner.ok
          THEN [tier |-> "brace", returned |-> FALSE, val |-> inner.val]
          ELSE [tier |-> "parseError", returned |-> TRUE,
                val |-> EmptyResponse(SummaryParseError)]
     ELSE [tier |-> "noBraces", returned |-> TRUE,
           val |-> EmptyResponse(SummaryNoBraces)]

\* variant: the no-brace test passes as soon as either brace is there
BraceExtractEitherBrace(sanitized) ==
  LET startIdx == IndexOf(sanitized, "{")
      endIdx == LastIndexOf(sanitized, "}")
      extracted == Slice(sanitized, startIdx, endIdx + 1)
      inner == JSONParse(extracted)
  IN IF startIdx # -1 \/ endIdx # -1
     THEN IF inner.ok
          THEN [tier |-> "brace", returned |-> FALSE, val |-> inner.val]
          ELSE [tier |-> "parseError", returned |-> TRUE,
                val |-> EmptyResponse(SummaryParseError)]
     ELSE [tier |-> "noBraces", returned |-> TRUE,
           val |-> EmptyResponse(SummaryNoBraces)]

\* the catch branch of the direct parse: slice from the first opening brace
\* to the last closing brace and parse again, else an empty response.
\* tier names the branch taken; a parsed value goes on to enrichment.
BraceExtract(sanitized) ==
  LET startIdx == IndexOf(sanitized, "{")
      endIdx == LastIndexOf(sanitized, "}")
      extracted == Slice(sanitized, startIdx, endIdx + 1)
      inner == JSONParse(extracted)
  IN IF startIdx # -1 /\ endIdx # -1
     THEN IF inner.ok
          THEN [tier |-> "brace", returned |-> FALSE, val |-> inner.val]
          ELSE [tier |-> "parseError", returned |-> TRUE,
                val |-> EmptyResponse(SummaryParseError)]
     ELSE [tier |-> "noBraces", returned |-> TRUE,
           val |-> EmptyResponse(SummaryNoBraces)]

ParseLadder(sanitized) ==
  LET direct == DirectParse(sanitized)
  IN IF direct.ok
     THEN [tier |-> "direct", returned |-> FALSE, val |-> direct.val]
     ELSE BraceExtract(sanitized)

\* docsContext.find(d => d.file === target): 0 when nothing matches
RECURSIVE FindDoc(_, _, _)
FindDoc(docsContext, target, i) ==
  IF i > Len(docsContext) THEN 0
  ELSE IF target.t = "str" /\ docsContext[i].file = target.s THEN i
  ELSE FindDoc(docsContext, target, i + 1)

\* the own enumerable properties an object spread copies
IdxKey(i) == <<ToString(i - 1)>>

SpreadProps(v) ==
  CASE v.t = "obj" -> v.f
    [] v.t = "arr" -> [k \in {IdxKey(i) : i \in 1..Len(v.a)} |->
                         v.a[CHOOSE i \in 1..Len(v.a) : IdxKey(i) = k]]
    [] v.t = "str" -> [k \in {IdxKey(i) : i \in 1..Len(v.s)} |->
                         JStr(<<v.s[CHOOSE i \in 1..Len(v.s) : IdxKey(i) = k]>>)]
    [] OTHER -> EmptyProps

\* variant: the last matching record is taken, not the first
EnrichOneLastMatch(sug, docsContext) ==
  LET ms == {i \in 1..Len(docsContext) :
               docsContext[i].file = GetProp(sug, Key("target_file")).s}
      m == IF GetProp(sug, Key("target_file")).t # "str" \/ ms = {} THEN 0
           ELSE CHOOSE i \in ms : \A j \in ms : i >= j
      startLine == IF m = 0 THEN Undefined ELSE JNum(docsContext[m].startLine)
      endLine == IF m = 0 THEN Undefined ELSE JNum(docsContext[m].endLine)
  IN JObj(SetProp(SetProp(SpreadProps(sug),
       Key("start_line"), startLine), Key("end_line"), endLine))

\* variant: without a matching record the suggestion is returned as the model
\* wrote it, its own line numbers included
EnrichOneKeepsModelLines(sug, docsContext) ==
  LET m == FindDoc(docsContext, GetProp(sug, Key("target_file")), 1)
  IN IF m = 0 THEN JObj(SpreadProps(sug))
     ELSE JObj(SetProp(SetProp(SpreadProps(sug),
            Key("start_line"), JNum(docsContext[m].startLine)),
            Key("end_line"), JNum(docsContext[m].endLine)))

\* the callback of suggestions.map, for an element that is not null
EnrichOne(sug, docsContext) ==
  LET m == FindDoc(docsContext, GetProp(sug, Key("target_file")), 1)
      startLine == IF m = 0 THEN Undefined ELSE JNum(docsContext[m].startLine)
      endLine == IF m = 0 THEN Undefined ELSE JNum(docsContext[m].endLine)
  IN JObj(SetProp(SetProp(SpreadProps(sug),
       Key("start_line"), startLine), Key("end_line"), endLine))

\* parsed.suggestions = parsed.suggestions.map(...); return parsed.
\* Reading a property of null or undefined, or calling a map that is not
\* there, throws a TypeError.
Enrich(parsed, docsContext) ==
  IF parsed.t = "null"
  THEN [raised |-> TRUE, error |-> "TypeError", val |-> Undefined]
  ELSE LET sugs == GetProp(parsed, Key("suggestions")) IN
    IF sugs.t # "arr"
    THEN [raised |-> TRUE, error |-> "TypeError", val |-> Undefined]
    ELSE IF \E i \in 1..Len(sugs.a) : sugs.a[i].t = "null"
    THEN [raised |-> TRUE, error |-> "TypeError", val |-> Undefined]
    ELSE [raised |-> FALSE, error |-> "",
          val |-> JObj(SetProp(parsed.f, Key("suggestions"),
                    JArr([i \in 1..Len(sugs.a) |-> EnrichOne(sugs.a[i], docsContext)])))]

NoResponse == "No response from Gemini"

\* the whole function after the generateContent call has resolved:
\* candidates is result.candidates (empty when absent)
GenerateSuggestions(candidates, docsContext) ==
  IF candidates = <<>>
  THEN [raised |-> TRUE, error |-> NoResponse, val |-> Undefined, tier |-> "none"]
  ELSE LET ladder == ParseLadder(Sanitize(StripFences(ExtractRawText(candidates[1]))))
           enriched == Enrich(ladder.val, docsContext)
       IN IF ladder.returned
          THEN [raised |-> FALSE, error |-> "", val |-> ladder.val, tier |-> ladder.tier]
          ELSE [raised |-> enriched.raised, error |-> enriched.error,
                val |-> enriched.val, tier |-> ladder.tier]

(***************************************************************************)
(* What the model may answer.  A document is a JSON value whose objects    *)
(* keep their members in order ([t |-> "oobj", m |-> members]); Serialise  *)
(* writes it the way the output format of the prompt shows it, compact or  *)
(* pretty-printed, and, for a malformed answer, with the line breaks of    *)
(* string values left unescaped.                                           *)
(***************************************************************************)
OObj(members) == [t |-> "oobj", m |-> members]
Member(word, d) == [k |-> Key(word), v |-> d]

RECURSIVE ValueOf(_)
RECURSIVE MembersValue(_, _)
ValueOf(d) ==
  CASE d.t = "oobj" -> JObj(MembersValue(d.m, EmptyProps))
    [] d.t = "arr" -> JArr([i \in 1..Len(d.a) |-> ValueOf(d.a[i])])
    [] OTHER -> d

MembersValue(ms, f) ==
  IF ms = <<>> THEN f
  ELSE MembersValue(Tail(ms), SetProp(f, Head(ms).k, ValueOf(Head(ms).v)))

RECURSIVE QuoteChars(_, _)
QuoteChars(cs, rawNewlines) ==
  IF cs = <<>> THEN <<>>
  ELSE LET c == Head(cs)
           e == CASE c = DQ -> <<BS, DQ>>
                  [] c = BS -> <<BS, BS>>
                  [] c = LF -> IF rawNewlines THEN <<LF>> ELSE <<BS, "n">>
                  [] c = CR -> IF rawNewlines THEN <<CR>> ELSE <<BS, "r">>
                  [] OTHER -> <<c>>
       IN e \o QuoteChars(Tail(cs), rawNewlines)

QuoteString(cs, rawNewlines) == <<DQ>> \o QuoteChars(cs, rawNewlines) \o <<DQ>>

NumberText(n) ==
  IF n < 10 THEN <<ToString(n)>> ELSE <<ToString(n \div 10), ToString(n % 10)>>

RECURSIVE Serialise(_, _)
RECURSIVE SerialiseItems(_, _, _)
\* style is [pretty, rawNewlines]
Serialise(d, style) ==
  CASE d.t = "null" -> <<"null">>
    [] d.t = "bool" -> IF d.b THEN <<"true">> ELSE <<"false">>
    [] d.t = "num" -> NumberText(d.n)
    [] d.t = "str" -> QuoteString(d.s, style.rawNewlines)
    [] d.t = "arr" ->
         IF d.a = <<>> THEN <<"[", "]">>
         ELSE <<"[">> \o SerialiseItems(d.a, style, FALSE) \o <<"]">>
    [] d.t = "oobj" ->
         IF d.m = <<>> THEN <<"{", "}">>
         ELSE <<"{">> \o SerialiseItems(d.m, style, TRUE) \o <<"}">>

SerialiseItems(items, style, isObject) ==
  LET it == Head(items)
      one == IF isObject
             THEN QuoteString(it.k, FALSE) \o <<":">>
                  \o (IF style.pretty THEN <<SP>> ELSE <<>>) \o Serialise(it.v, style)
             ELSE Serialise(it, style)
      lead == IF style.pretty THEN <<LF, SP>> ELSE <<>>
  IN IF Len(items) = 1
     THEN lead \o one \o (IF style.pretty THEN <<LF>> ELSE <<>>)
     ELSE lead \o one \o <<",">> \o SerialiseItems(Tail(items), style, isObject)

(***************************************************************************)
(* Bounds of the answers the model checker tries.                          *)
(***************************************************************************)
MaxFree == 3
MaxStr == 1
MaxProse == 1
MaxSuggestions == 2
MaxChunks == 3

\* all sequences over alphabet of length at most n
RECURSIVE SeqsUpTo(_, _)
SeqsUpTo(alphabet, n) ==
  IF n = 0 THEN {<<>>}
  ELSE LET shorter == SeqsUpTo(alphabet, n - 1)
       IN shorter \cup {Append(q, c) : q \in shorter, c \in alphabet}

FreeAlphabet == {"{", "}", "[", "]", DQ, BS, LF, CR, "null", "x"}
FreeTexts == SeqsUpTo(FreeAlphabet, MaxFree)

StrAlphabet == {"a", DQ, BS, LF, CR, BT}
Strs == SeqsUpTo(StrAlphabet, MaxStr) \cup {<<BT, BT, BT>>, <<"a", BT, BT, BT, "a">>}

ProseAlphabet == {"x", SP, LF, DQ, "{", "}", "[", "]", BT}
Prose == SeqsUpTo(ProseAlphabet, MaxProse)
ShortProse == SeqsUpTo(ProseAlphabet, 1)

ImpactLevels == {"none", "low", "medium", "high"}

\* a Suggestion as the model writes it (no line numbers)
SuggestionDoc(targetFile, text) ==
  OObj(<<Member("target_file", JStr(targetFile)),
         Member("target_section", JStr(<<"Intro">>)),
         Member("type", JStr(<<"update">>)),
         Member("rationale", JStr(<<"sync">>)),
         Member("suggested_text", JStr(text)),
         Member("severity", JStr(<<"info">>))>>)

\* a SuggestionSet as the model writes it; intro = <<>> means no comment_intro
SetDoc(level, summary, intro, sugs) ==
  OObj(<<Member("impact_level", JStr(<<level>>)),
         Member("summary", JStr(summary))>>
       \o (IF intro = <<>> THEN <<>> ELSE <<Member("comment_intro", JStr(intro))>>)
       \o <<Member("suggestions", JArr(sugs))>>)

FileA == <<"docs/a.md">>
FileB == <<"docs/b.md">>
FileUpper == <<"docs/A.md">>

\* valid SuggestionSets whose string values range over Strs, one field at a time
StrDocs ==
  {SetDoc("low", str, <<>>, <<>>) : str \in Strs}
  \cup {SetDoc("medium", <<"ok">>, str, <<SuggestionDoc(FileA, <<"t">>)>>) : str \in Strs \ {<<>>}}
  \cup {SetDoc("high", <<"ok">>, <<>>, <<SuggestionDoc(FileA, str)>>) : str \in Strs}
  \cup {SetDoc("low", <<"ok">>, <<>>, <<SuggestionDoc(str, <<"t">>)>>) : str \in Strs}

\* valid SuggestionSets with up to MaxSuggestions suggestions
SuggestionChoices == {SuggestionDoc(FileA, <<"t">>), SuggestionDoc(FileB, <<"u">>),
                      SuggestionDoc(FileUpper, <<"t">>)}
CountDocs ==
  {SetDoc(level, <<"ok">>, <<>>, <<>>) : level \in ImpactLevels}
  \cup {SetDoc("low", <<"ok">>, <<>>, sugs) : sugs \in SeqsUpTo(SuggestionChoices, MaxSuggestions)}

\* the SuggestionSets that are tried with prose around them
ProseDocs == {SetDoc("none", <<"ok">>, <<>>, <<>>),
              SetDoc("low", <<"a", DQ>>, <<"hi">>, <<SuggestionDoc(FileA, <<"t", BS>>)>>)}

ValidDocs == StrDocs \cup CountDocs \cup ProseDocs

\* answers that are JSON of another shape
OtherDocs ==
  {JNull, JNum(1), JBool(TRUE), JStr(<<"a">>), JArr(<<>>), JArr(<<JNum(1)>>), OObj(<<>>),
   OObj(<<Member("summary", JStr(<<"ok">>))>>),
   OObj(<<Member("suggestions", JNull)>>),
   OObj(<<Member("suggestions", JStr(<<"a">>))>>),
   OObj(<<Member("suggestions", OObj(<<>>))>>),
   OObj(<<Member("suggestions", JArr(<<>>))>>),
   OObj(<<Member("suggestions", JArr(<<JNull>>))>>),
   OObj(<<Member("suggestions", JArr(<<SuggestionDoc(FileA, <<"t">>), JNull>>))>>),
   OObj(<<Member("suggestions", JArr(<<JNum(1), JStr(<<"a", "b">>), JArr(<<JNum(0)>>)>>))>>),
   OObj(<<Member("impact_level", JStr(<<"low">>)), Member("summary", JStr(<<"ok">>)),
          Member("suggestions", JArr(<<OObj(<<
            Member("target_file", JStr(FileA)), Member("start_line", JNum(1)),
            Member("end_line", JNum(1))>>)>>))>>),
   OObj(<<Member("impact_level", JStr(<<"low">>)), Member("summary", JStr(<<"ok">>)),
          Member("suggestions", JArr(<<OObj(<<
            Member("target_file", JStr(FileB)), Member("start_line", JNum(1)),
            Member("end_line", JNum(1))>>)>>))>>),
   OObj(<<Member("impact_level", JStr(<<"low">>)), Member("summary", JStr(<<"ok">>)),
          Member("suggestions", JArr(<<OObj(<<Member("target_file", JNum(1))>>)>>))>>)}

Compact == [pretty |-> FALSE, rawNewlines |-> FALSE]
Pretty == [pretty |-> TRUE, rawNewlines |-> FALSE]
PrettyRaw == [pretty |-> TRUE, rawNewlines |-> TRUE]

\* the fence put around the JSON text, if any
Wrap(wrap, json) ==
  CASE wrap = "fencejson" -> <<BT, BT, BT, "json", LF>> \o json \o <<LF, BT, BT, BT>>
    [] wrap = "fence" -> <<BT, BT, BT, LF>> \o json \o <<LF, BT, BT, BT>>
    [] OTHER -> json

\* the retrieved context records (QueryResult)
Record(file, startLine, endLine) ==
  [file |-> file, chunkIndex |-> 0, startLine |-> startLine, endLine |-> endLine,
   text |-> <<"chunk">>, score |-> 1]

ContextA == <<Record(FileA, 10, 20)>>
DocsContexts == {<<>>, ContextA, <<Record(FileB, 1, 1), Record(FileA, 10, 20), Record(FileA, 0, 11)>>,
                 <<Record(FileUpper, 0, 0), Record(FileB, 10, 11), Record(FileB, 1, 0)>>}

\* one answer of the model: how it was built and the candidates it arrives as
Candidate(parts) == [hasParts |-> TRUE, parts |-> parts]
NoParts == [hasParts |-> FALSE, parts |-> <<>>]

Given(kind, doc, style, wrap, pre, post, candidates, docs) ==
  [kind |-> kind, doc |-> doc, style |-> style, wrap |-> wrap, pre |-> pre,
   post |-> post, candidates |-> candidates, docs |-> docs]

DocGiven(doc, style, wrap, pre, post, docs) ==
  Given("doc", doc, style, wrap, pre, post,
        <<Candidate(<<pre \o Wrap(wrap, Serialise(doc, style)) \o post>>)>>, docs)

TextGiven(kind, candidates) ==
  Given(kind, JNull, Compact, "bare", <<>>, <<>>, candidates, ContextA)

\* texts with fences in them: up to MaxChunks pieces, each a triple backtick,
\* a single backtick, the tag, a white space or a piece of content; and some
\* longer texts with two fenced blocks, an upper-case tag and prose around
Fence == <<BT, BT, BT>>
FenceChunks == {Fence, <<BT>>, <<"json">>, <<LF>>, <<SP>>, <<"x">>, <<"{", "}">>}

RECURSIVE Concat(_)
Concat(chunks) == IF chunks = <<>> THEN <<>> ELSE Head(chunks) \o Concat(Tail(chunks))

FenceSamples ==
  {Fence \o <<"json", LF, "{", "}", LF>> \o Fence \o <<SP>> \o Fence \o <<"x">> \o Fence,
   Fence \o Fence \o <<"x">> \o Fence \o Fence,
   Fence \o <<"JSON", SP, "x">> \o Fence,
   <<"x", SP>> \o Fence \o <<"json", SP, LF, "x", SP>> \o Fence \o <<LF, "x">>,
   <<"x">> \o Fence \o <<"json", "x">>,
   Fence \o <<"json", "x">> \o Fence,
   Fence \o <<LF, "{", "}", LF>> \o Fence,
   <<BT>> \o Fence \o <<"x">> \o Fence \o <<BT>>,
   Fence \o <<"x", BT, BT>> \o Fence \o <<"x">>}

FenceTexts == {Concat(chunks) : chunks \in SeqsUpTo(FenceChunks, MaxChunks)} \cup FenceSamples

Givens ==
  {TextGiven("free", <<Candidate(<<text>>)>>) : text \in FreeTexts}
  \cup {TextGiven("fence", <<Candidate(<<text>>)>>) : text \in FenceTexts}
  \cup {TextGiven("parts", c) : c \in {<<>>, <<NoParts>>, <<Candidate(<<>>)>>,
          <<Candidate(<<<<"{">>, <<"}">>>>)>>, <<Candidate(<<<<"x">>, <<"null">>>>)>>,
          <<Candidate(<<<<"x">>>>), Candidate(<<<<"null">>>>)>>,
          <<Candidate(<<<<SP, LF>>, <<LF, SP>>>>)>>}}
  \cup {DocGiven(doc, style, wrap, <<>>, <<>>, ContextA) :
          doc \in StrDocs, style \in {Compact, Pretty, PrettyRaw},
          wrap \in {"bare", "fence", "fencejson"}}
  \cup {DocGiven(doc, style, wrap, <<>>, <<>>, docs) :
          doc \in CountDocs, style \in {Compact}, wrap \in {"bare", "fencejson"},
          docs \in DocsContexts}
  \cup {DocGiven(doc, style, wrap, <<>>, <<>>, docs) :
          doc \in OtherDocs, style \in {Compact, PrettyRaw}, wrap \in {"bare", "fencejson"},
          docs \in {ContextA}}
  \cup {DocGiven(doc, style, "bare", pre, post, ContextA) :
          doc \in ProseDocs, style \in {Compact, Pretty},
          pre \in Prose, post \in ShortProse}
  \cup {DocGiven(doc, Pretty, "fencejson", pre, post, ContextA) :
          doc \in ProseDocs, pre \in ShortProse, post \in ShortProse}

(***************************************************************************)
(* State.  The first group is one call of generateSuggestions, taken stage *)
(* by stage; the second group is run().                                    *)
(***************************************************************************)
VARIABLES
  given,       \* the answer of the model under test and the context records
  pstage,      \* the stage generateSuggestions is at
  rawText,     \* the trimmed text of the first candidate
  jsonString,  \* after fence stripping
  purged,      \* after the backtick purge and the trim: what the escaper is given
  sanitized,   \* after the escaper
  parsed,      \* [tier, val]: the decoded value and the tier that decoded it
  result,      \* what generateSuggestions returned or threw
  pc,          \* per invocation: the await run() is at, or idle / done / failed
  local,       \* per invocation: the local variables of run() while it runs
  calls,       \* per invocation: the collaborator calls issued, in order
  errors,      \* per invocation: the calls that failed, with their messages
  failure,     \* per invocation: the message given to core.setFailed
  outputs,     \* per invocation: the action outputs that were set
  comments,    \* the comments of the pull request, in order
  comments0,   \* the comments of the pull request before the first invocation
  einput,      \* the input of one call of escapeNewlinesInStrings
  epos,        \* the 1-based position of the character its loop reads next
  est,         \* its locals inString, escaped and out
  eout         \* what it returned

pvars == <<given, pstage, rawText, jsonString, purged, sanitized, parsed, result>>
rvars == <<pc, local, calls, errors, failure, outputs, comments, comments0>>
evars == <<einput, epos, est, eout>>
vars == <<pvars, rvars, evars>>

NoResult == [raised |-> FALSE, error |-> "", val |-> Undefined, tier |-> "none"]
NotParsed == [tier |-> "none", val |-> Undefined]

Returned(val, tier) == [raised |-> FALSE, error |-> "", val |-> val, tier |-> tier]
Thrown(error, tier) == [raised |-> TRUE, error |-> error, val |-> Undefined, tier |-> tier]

(***************************************************************************)
(* run(): bounds and the values the environment may supply.                *)
(***************************************************************************)
MaxRuns == 2
MaxComments == 2

Invocations == 1..MaxRuns

\* the phrase postComment looks for in a comment body
BotMarker == "Documentation Update Suggestions"

\* the locals of run(): isDryRun, pineconeQueryText (where it came from),
\* docsContext, response, comment, and the comments postComment listed
NoLocals == [dryRun |-> FALSE, query |-> "none", context |-> <<>>,
             response |-> Undefined, body |-> <<>>, listed |-> <<>>]

NoOutputs == [set |-> FALSE, suggestions_count |-> 0, impact_level |-> Undefined]

RunIdle ==
  /\ pc = [i \in Invocations |-> "idle"]
  /\ local = [i \in Invocations |-> NoLocals]
  /\ calls = [i \in Invocations |-> <<>>]
  /\ errors = [i \in Invocations |-> <<>>]
  /\ failure = [i \in Invocations |-> <<>>]
  /\ outputs = [i \in Invocations |-> NoOutputs]

NotReturned == [returned |-> FALSE, out |-> <<>>]

\* escapeNewlinesInStrings is not being watched
EscapeIdle ==
  /\ einput = <<>>
  /\ epos = 0
  /\ est = ScanStart
  /\ eout = NotReturned

ParseIdle ==
  /\ given = TextGiven("off", <<>>)
  /\ pstage = "off"
  /\ rawText = <<>>
  /\ jsonString = <<>>
  /\ purged = <<>>
  /\ sanitized = <<>>
  /\ parsed = NotParsed
  /\ result = NoResult

ParseInit ==
  /\ given \in Givens
  /\ pstage = "call"
  /\ rawText = <<>>
  /\ jsonString = <<>>
  /\ purged = <<>>
  /\ sanitized = <<>>
  /\ parsed = NotParsed
  /\ result = NoResult
  /\ RunIdle
  /\ EscapeIdle
  /\ comments = <<>>
  /\ comments0 = <<>>

\* the generateContent call has resolved: take the first candidate's text
TakeCandidate ==
  /\ pstage = "call"
  /\ IF given.candidates = <<>>
     THEN /\ result' = Thrown(NoResponse, "none")
          /\ pstage' = "done"
          /\ UNCHANGED rawText
     ELSE /\ rawText' = ExtractRawText(given.candidates[1])
          /\ pstage' = "fence"
          /\ UNCHANGED result
  /\ UNCHANGED <<evars, rvars, given, jsonString, purged, sanitized, parsed>>

StripFenceStep ==
  /\ pstage = "fence"
  /\ jsonString' = StripFences(rawText)
  /\ pstage' = "sanitize"
  /\ UNCHANGED <<evars, rvars, given, rawText, purged, sanitized, parsed, result>>

SanitizeStep ==
  /\ pstage = "sanitize"
  /\ purged' = Purge(jsonString)
  /\ sanitized' = Sanitize(jsonString)
  /\ pstage' = "parse"
  /\ UNCHANGED <<evars, rvars, given, rawText, jsonString, parsed, result>>

DirectParseStep ==
  /\ pstage = "parse"
  /\ LET direct == DirectParse(sanitized) IN
     IF direct.ok
     THEN /\ parsed' = [tier |-> "direct", val |-> direct.val]
          /\ pstage' = "enrich"
     ELSE /\ pstage' = "brace"
          /\ UNCHANGED parsed
  /\ UNCHANGED <<evars, rvars, given, rawText, jsonString, purged, sanitized, result>>

BraceExtractStep ==
  /\ pstage = "brace"
  /\ LET b == BraceExtract(sanitized) IN
     IF b.returned
     THEN /\ result' = Returned(b.val, b.tier)
          /\ pstage' = "done"
          /\ UNCHANGED parsed
     ELSE /\ parsed' = [tier |-> b.tier, val |-> b.val]
          /\ pstage' = "enrich"
          /\ UNCHANGED result
  /\ UNCHANGED <<evars, rvars, given, rawText, jsonString, purged, sanitized>>

EnrichStep ==
  /\ pstage = "enrich"
  /\ LET e == Enrich(parsed.val, given.docs) IN
     result' = IF e.raised THEN Thrown(e.error, parsed.tier) ELSE Returned(e.val, parsed.tier)
  /\ pstage' = "done"
  /\ UNCHANGED <<evars, rvars, given, rawText, jsonString, purged, sanitized, parsed>>

ParseNext ==
  \/ TakeCandidate
  \/ StripFenceStep
  \/ SanitizeStep
  \/ DirectParseStep
  \/ BraceExtractStep
  \/ EnrichStep

SpecParse == ParseInit /\ [][ParseNext]_vars

\* the stages compose to the function
StagesAgree == pstage = "done" => result = GenerateSuggestions(given.candidates, given.docs)

(***************************************************************************)
(* escapeNewlinesInStrings on its own, one loop iteration per step, on     *)
(* every text of up to MaxScan characters.                                 *)
(***************************************************************************)
MaxScan == 4

ScanAlphabet == {DQ, BS, LF, CR, "a", "1"}
ScanTexts == SeqsUpTo(ScanAlphabet, MaxScan)

EscapeInit ==
  /\ einput \in ScanTexts
  /\ epos = 1
  /\ est = ScanStart
  /\ eout = NotReturned
  /\ ParseIdle
  /\ RunIdle
  /\ comments = <<>>
  /\ comments0 = <<>>

\* one iteration of the for loop
ScanChar ==
  /\ epos >= 1
  /\ epos <= Len(einput)
  /\ est' = EscapeStep(est, einput[epos])
  /\ epos' = epos + 1
  /\ UNCHANGED <<einput, eout, pvars, rvars>>

\* the loop is over: return out
ScanReturn ==
  /\ epos = Len(einput) + 1
  /\ ~eout.returned
  /\ eout' = [returned |-> TRUE, out |-> est.out]
  /\ UNCHANGED <<einput, epos, est, pvars, rvars>>

EscapeNext == ScanChar \/ ScanReturn

SpecEscape == EscapeInit /\ [][EscapeNext]_vars

\* the loop taken step by step returns what the function returns
ScanAgrees == eout.returned => eout.out = escapeNewlinesInStrings(einput)


(***************************************************************************)
(* Properties of generateSuggestions, read off the state when the call is  *)
(* over (pstage = "done").                                                 *)
(***************************************************************************)
Done == pstage = "done"
HasCandidate == given.candidates # <<>>

Holds(text, c) == \E k \in 1..Len(text) : text[k] = c

\* a value with impact_level, summary and a suggestions sequence
IsSuggestionSet(v) ==
  /\ v.t = "obj"
  /\ GetProp(v, Key("impact_level")).t = "str"
  /\ GetProp(v, Key("summary")).t = "str"
  /\ GetProp(v, Key("suggestions")).t = "arr"

\* the empty result with the given summary and nothing else
IsEmptyResult(v, summary) ==
  /\ v.t = "obj"
  /\ DOMAIN v.f = {Key("impact_level"), Key("summary"), Key("suggestions")}
  /\ v.f[Key("impact_level")] = JStr(<<"none">>)
  /\ v.f[Key("summary")] = JStr(<<summary>>)
  /\ v.f[Key("suggestions")] = JArr(<<>>)

\* v has the fields the model wrote in s: impact_level, summary,
\* comment_intro, and every field of every suggestion
SameModelFields(v, s) ==
  /\ v.t = "obj"
  /\ \A word \in {"impact_level", "summary", "comment_intro"} :
       GetProp(v, Key(word)) = GetProp(s, Key(word))
  /\ GetProp(v, Key("suggestions")).t = "arr"
  /\ Len(GetProp(v, Key("suggestions")).a) = Len(GetProp(s, Key("suggestions")).a)
  /\ \A k \in 1..Len(GetProp(s, Key("suggestions")).a) :
       \A key \in DOMAIN GetProp(s, Key("suggestions")).a[k].f :
         GetProp(GetProp(v, Key("suggestions")).a[k], key)
           = GetProp(s, Key("suggestions")).a[k].f[key]

\* the answer is a valid SuggestionSet in a valid JSON serialisation
ValidAnswer ==
  /\ given.kind = "doc"
  /\ given.doc \in ValidDocs
  /\ ~given.style.rawNewlines

ReturnsGiven == ~result.raised /\ SameModelFields(result.val, ValueOf(given.doc))

\* C1: for every raw text of a present first candidate, whatever it decodes
\* to, generateSuggestions returns a SuggestionSet with impact_level, summary
\* and a suggestions sequence and raises no error to its caller.
C1Total == Done /\ HasCandidate => ~result.raised /\ IsSuggestionSet(result.val)

\* C7: with zero candidates generateSuggestions raises its terminal error and
\* returns nothing; with a candidate whose text is empty or is not JSON it
\* does not raise.
C7MissingCandidate ==
  Done =>
    /\ ~HasCandidate => result = Thrown(NoResponse, "none")
    /\ HasCandidate /\ ~JSONParse(rawText).ok => ~result.raised

\* the two braces the fallback slices between are both there
BracePair == Holds(sanitized, "{") /\ Holds(sanitized, "}")

\* the text between the first opening and the last closing brace, inclusive
BraceSlice ==
  LET opens == {k \in 1..Len(sanitized) : sanitized[k] = "{"}
      closes == {k \in 1..Len(sanitized) : sanitized[k] = "}"}
      first == CHOOSE k \in opens : \A j \in opens : k <= j
      last == CHOOSE k \in closes : \A j \in closes : j <= k
  IN SubSeq(sanitized, first, last)

AllDecodingFails ==
  /\ ~JSONParse(Trim(sanitized)).ok
  /\ BracePair => ~JSONParse(BraceSlice).ok

\* C8 as stated: on every path where all decoding fails the parser returns
\* one and the same empty result, with one fixed parse-failure summary.
C8OneCanonical ==
  Done /\ HasCandidate /\ AllDecodingFails =>
    ~result.raised /\ IsEmptyResult(result.val, SummaryParseError)

\* C8 amended: when the direct parse fails and the brace slice does not
\* parse, the parser returns the empty result with the parsing-error summary;
\* when the direct parse fails and a brace is missing, it returns the empty
\* result with the no-valid-response summary; it takes these two return
\* paths in no other case.
C8FallbackPaths ==
  Done /\ HasCandidate =>
    /\ AllDecodingFails /\ BracePair <=> result.tier = "parseError"
    /\ AllDecodingFails /\ ~BracePair <=> result.tier = "noBraces"
    /\ result.tier = "parseError" =>
         ~result.raised /\ IsEmptyResult(result.val, SummaryParseError)
    /\ result.tier = "noBraces" =>
         ~result.raised /\ IsEmptyResult(result.val, SummaryNoBraces)

C8Witness ==
  /\ Done
  /\ given.kind = "free"
  /\ rawText = <<"}", "{">>
  /\ result.tier = "parseError"
  /\ IsEmptyResult(result.val, SummaryParseError)

\* the raw text is the serialisation of a valid SuggestionSet in one json fence
FencedAnswer ==
  /\ ValidAnswer
  /\ given.wrap = "fencejson"
  /\ given.pre = <<>>
  /\ given.post = <<>>

\* C9 as stated: whatever characters the strings of S hold, the fenced
\* serialisation of S comes back as S.
C9AnyCharacters == Done /\ FencedAnswer => ReturnsGiven

\* C9 amended: for every valid SuggestionSet S none of whose string values
\* holds a triple backtick, the serialisation of S in a single json fence
\* comes back with the impact_level, summary, comment_intro and suggestion
\* fields of S.
C9RoundTrip ==
  Done /\ FencedAnswer /\ ~HasFence(Serialise(given.doc, given.style)) => ReturnsGiven

C9Witness ==
  /\ Done
  /\ FencedAnswer
  /\ given.style = Pretty
  /\ given.doc = SetDoc("high", <<"ok">>, <<>>, <<SuggestionDoc(FileA, <<LF>>)>>)
  /\ result.tier = "direct"
  /\ ReturnsGiven

\* the raw text is the serialisation of a valid SuggestionSet with prose
\* around it and no fence anywhere
ProseAnswer ==
  /\ ValidAnswer
  /\ given.wrap = "bare"
  /\ ~HasFence(given.pre \o Serialise(given.doc, given.style) \o given.post)

PlainProse ==
  /\ ~Holds(given.pre, "{")
  /\ ~Holds(given.pre, DQ)
  /\ ~Holds(given.post, "}")
  /\ ~(Holds(given.pre, "[") /\ Holds(given.post, "]"))

ContainsAnything(text) == text # <<>>

\* substring containment of the marker
ContainsMarker(text) == \E k \in 1..Len(text) : text[k] = BotMarker

\* the body formatComment builds: the marker phrase, the summary and the
\* number of suggestions
FormatComment(resp) ==
  LET summary == GetProp(resp, Key("summary"))
      sugs == GetProp(resp, Key("suggestions"))
  IN <<BotMarker>> \o (IF summary.t = "str" THEN summary.s ELSE <<>>)
     \o <<ToString(IF sugs.t = "arr" THEN Len(sugs.a) ELSE 0)>>

\* variant: the last comment that holds the marker, not the first
FindLastBotComment(list) ==
  LET hits == {k \in 1..Len(list) : ContainsMarker(list[k].body)}
  IN IF hits = {} THEN 0 ELSE CHOOSE k \in hits : \A j \in hits : j <= k

\* position of the first comment whose body contains the marker, 0 when none
FindBotComment(list) ==
  LET hits == {k \in 1..Len(list) : ContainsMarker(list[k].body)}
  IN IF hits = {} THEN 0 ELSE CHOOSE k \in hits : \A j \in hits : k <= j

\* a call as the collaborator saw it, with the list it returned if any
Call(op) == [op |-> op, comment_id |-> 0, issue_number |-> "-", body |-> <<>>,
             returned |-> <<>>]

\* the one write call postComment issues for the comments it listed
PostCommentWrite(list, newBody) ==
  LET k == FindBotComment(list)
  IN IF k # 0
     THEN [op |-> "updateComment", comment_id |-> list[k].id, issue_number |-> "-",
           body |-> newBody, returned |-> <<>>]
     ELSE [op |-> "createComment", comment_id |-> 0, issue_number |-> "pr",
           body |-> newBody, returned |-> <<>>]

\* the transport: a created comment gets a fresh id and goes last
NextId(list) ==
  IF list = <<>> THEN 1
  ELSE 1 + (CHOOSE m \in {list[k].id : k \in 1..Len(list)} :
              \A k \in 1..Len(list) : list[k].id <= m)

ApplyWrite(list, w) ==
  IF w.op = "createComment"
  THEN Append(list, [id |-> NextId(list), body |-> w.body])
  ELSE [k \in 1..Len(list) |->
          IF list[k].id = w.comment_id THEN [id |-> list[k].id, body |-> w.body]
          ELSE list[k]]

OtherBodies == {<<"human">>, <<"see", BotMarker, "old">>}

\* comment lists a pull request may hold before the bot runs: ids ascending
InitialComments ==
  {[k \in 1..Len(bs) |-> [id |-> k, body |-> bs[k]]] : bs \in SeqsUpTo(OtherBodies, MaxComments)}

(***************************************************************************)
(* run(), one action per await.  The catch block of run() ends every       *)
(* action that throws; when run() is over its locals are gone.             *)
(***************************************************************************)
Finished(i) == pc[i] \in {"done", "failed"}

\* invocations run one after another
MayStart(i) == pc[i] = "idle" /\ \A j \in Invocations : j < i => Finished(j)

\* err.message of a collaborator call that failed
Unavailable(op) == <<op, "unavailable">>

\* variant: a failed generateSuggestions is followed by a best-effort post
CatchTargetBestEffort(at) == IF at = "generateSuggestions" THEN "listComments" ELSE "failed"

\* where run() goes when an await rejects or a statement throws: the catch
CatchTarget(at) == "failed"

\* catch (error): core.setFailed("Bot failed: " + err.message)
Catch(i, at, message) ==
  /\ pc' = [pc EXCEPT ![i] = CatchTarget(at)]
  /\ failure' = [failure EXCEPT ![i] = <<"Bot failed: ">> \o message]
  /\ local' = [local EXCEPT ![i] = NoLocals]

Goto(i, label) == pc' = [pc EXCEPT ![i] = label]
Issue(i, call) == calls' = [calls EXCEPT ![i] = Append(@, call)]
Failed(i, op, message) ==
  errors' = [errors EXCEPT ![i] = Append(@, [call |-> op, message |-> message])]

\* getInput of the required inputs, the PR number and the repository
Start(i) ==
  /\ MayStart(i)
  /\ \/ /\ Goto(i, "pulls.get")
        /\ \E dry \in BOOLEAN : local' = [local EXCEPT ![i].dryRun = dry]
        /\ UNCHANGED failure
     \/ Catch(i, "getInput", <<"Required input 'github_token' not provided">>)
     \/ Catch(i, "getInput", <<"Could not determine PR number or repository">>)
  /\ UNCHANGED <<evars, pvars, calls, errors, outputs, comments, comments0>>

\* await octokit.rest.pulls.get
GetPR(i) ==
  /\ pc[i] = "pulls.get"
  /\ Issue(i, Call("pulls.get"))
  /\ \/ /\ Goto(i, "pulls.listFiles")
        /\ UNCHANGED <<local, failure, errors>>
     \/ /\ Failed(i, "pulls.get", Unavailable("pulls.get"))
        /\ Catch(i, "pulls.get", Unavailable("pulls.get"))
  /\ UNCHANGED <<evars, pvars, outputs, comments, comments0>>

\* await octokit.rest.pulls.listFiles
ListFiles(i) ==
  /\ pc[i] = "pulls.listFiles"
  /\ Issue(i, Call("pulls.listFiles"))
  /\ \/ /\ Goto(i, "buildSearchQuery")
        /\ UNCHANGED <<local, failure, errors>>
     \/ /\ Failed(i, "pulls.listFiles", Unavailable("pulls.listFiles"))
        /\ Catch(i, "pulls.listFiles", Unavailable("pulls.listFiles"))
  /\ UNCHANGED <<evars, pvars, outputs, comments, comments0>>

\* variant: the failed summarisation call is tried again
SearchErrorRetry == "buildSearchQuery"

\* the catch around buildSearchQuery: core.warning, pineconeQueryText =
\* baseQuery, and run() goes on to queryPinecone
SearchErrorTarget == "embedContent"

\* try { pineconeQueryText = await buildSearchQuery(...) } catch { ... }
BuildSearchQuery(i) ==
  /\ pc[i] = "buildSearchQuery"
  /\ Issue(i, Call("generateContent.search"))
  /\ \/ /\ local' = [local EXCEPT ![i].query = "focused"]
        /\ Goto(i, "embedContent")
        /\ UNCHANGED errors
     \/ /\ local' = [local EXCEPT ![i].query = "base"]
        /\ Failed(i, "generateContent.search", Unavailable("generateContent.search"))
        /\ Goto(i, SearchErrorTarget)
  /\ UNCHANGED <<evars, pvars, failure, outputs, comments, comments0>>

\* queryPinecone: await genai.models.embedContent, then the embeddings check
EmbedQuery(i) ==
  /\ pc[i] = "embedContent"
  /\ Issue(i, Call("embedContent"))
  /\ \/ /\ Goto(i, "index.query")
        /\ UNCHANGED <<local, failure, errors>>
     \/ /\ Catch(i, "embedContent", <<"Failed to generate query embedding">>)
        /\ UNCHANGED errors
     \/ /\ Failed(i, "embedContent", Unavailable("embedContent"))
        /\ Catch(i, "embedContent", Unavailable("embedContent"))
  /\ UNCHANGED <<evars, pvars, outputs, comments, comments0>>

\* queryPinecone: await index.query, then the matches as QueryResult
QueryIndex(i) ==
  /\ pc[i] = "index.query"
  /\ Issue(i, Call("index.query"))
  /\ \/ /\ \E docs \in {<<>>, ContextA} : local' = [local EXCEPT ![i].context = docs]
        /\ Goto(i, "generateContent")
        /\ UNCHANGED <<failure, errors>>
     \/ /\ Failed(i, "index.query", Unavailable("index.query"))
        /\ Catch(i, "index.query", Unavailable("index.query"))
  /\ UNCHANGED <<evars, pvars, outputs, comments, comments0>>

\* what the suggestion call may resolve to in a run: result.candidates
RunAnswers ==
  {<<>>,
   <<Candidate(<<<<"x">>>>)>>,
   <<Candidate(<<<<"null">>>>)>>,
   <<Candidate(<<Wrap("fencejson",
       Serialise(SetDoc("low", <<"ok">>, <<>>, <<SuggestionDoc(FileA, <<"t", LF>>)>>), PrettyRaw))>>)>>}

\* core.setOutput('suggestions_count', ...), core.setOutput('impact_level', ...)
SetOutputs(resp) ==
  [set |-> TRUE,
   suggestions_count |-> Len(GetProp(resp, Key("suggestions")).a),
   impact_level |-> GetProp(resp, Key("impact_level"))]

\* the end of the try block: the outputs are set and run() returns
Complete(i, resp) ==
  /\ outputs' = [outputs EXCEPT ![i] = SetOutputs(resp)]
  /\ Goto(i, "done")
  /\ local' = [local EXCEPT ![i] = NoLocals]

\* variant: the summary is posted as it is, without formatComment
RespondUnformatted(held, resp) ==
  [held EXCEPT !.response = resp, !.body = GetProp(resp, Key("summary")).s]

\* the response and the comment body run() holds after formatComment
Respond(held, resp) ==
  [held EXCEPT !.response = resp, !.body = FormatComment(resp)]

\* variant: the comment is posted whatever DRY_RUN says
GenerateIgnoresDryRun(i) ==
  /\ pc[i] = "generateContent"
  /\ Issue(i, Call("generateContent.suggest"))
  /\ \/ /\ Failed(i, "generateContent.suggest", Unavailable("generateContent.suggest"))
        /\ Catch(i, "generateContent.suggest", Unavailable("generateContent.suggest"))
        /\ UNCHANGED outputs
     \/ \E candidates \in RunAnswers :
          \E r \in {GenerateSuggestions(candidates, local[i].context)} :
          /\ IF r.raised
             THEN /\ Catch(i, "generateSuggestions", <<r.error>>)
                  /\ UNCHANGED outputs
             ELSE /\ local' = [local EXCEPT ![i] = Respond(local[i], r.val)]
                  /\ Goto(i, "listComments")
                  /\ UNCHANGED <<failure, outputs>>
          /\ UNCHANGED errors
  /\ UNCHANGED <<evars, pvars, comments, comments0>>

\* await generateSuggestions(...), then formatComment and the DRY_RUN test
Generate(i) ==
  /\ pc[i] = "generateContent"
  /\ Issue(i, Call("generateContent.suggest"))
  /\ \/ /\ Failed(i, "generateContent.suggest", Unavailable("generateContent.suggest"))
        /\ Catch(i, "generateContent.suggest", Unavailable("generateContent.suggest"))
        /\ UNCHANGED outputs
     \/ \E candidates \in RunAnswers :
          \E r \in {GenerateSuggestions(candidates, local[i].context)} :
          /\ IF r.raised
             THEN /\ Catch(i, "generateSuggestions", <<r.error>>)
                  /\ UNCHANGED outputs
             ELSE IF local[i].dryRun
             THEN /\ Complete(i, r.val)
                  /\ UNCHANGED failure
             ELSE /\ local' = [local EXCEPT ![i] = Respond(local[i], r.val)]
                  /\ Goto(i, "listComments")
                  /\ UNCHANGED <<failure, outputs>>
          /\ UNCHANGED errors
  /\ UNCHANGED <<evars, pvars, comments, comments0>>

\* postComment: await octokit.rest.issues.listComments
ListComments(i) ==
  /\ pc[i] = "listComments"
  /\ \/ /\ Issue(i, [Call("listComments") EXCEPT !.returned = comments])
        /\ local' = [local EXCEPT ![i].listed = comments]
        /\ Goto(i, "write")
        /\ UNCHANGED <<failure, errors>>
     \/ /\ Issue(i, Call("listComments"))
        /\ Failed(i, "listComments", Unavailable("listComments"))
        /\ Catch(i, "listComments", Unavailable("listComments"))
  /\ UNCHANGED <<evars, pvars, outputs, comments, comments0>>

\* postComment: await updateComment or createComment; then the outputs
WriteComment(i) ==
  /\ pc[i] = "write"
  /\ LET w == PostCommentWrite(local[i].listed, local[i].body) IN
     /\ Issue(i, w)
     /\ \/ /\ comments' = ApplyWrite(comments, w)
           /\ Complete(i, local[i].response)
           /\ UNCHANGED <<failure, errors>>
        \/ /\ Failed(i, w.op, Unavailable(w.op))
           /\ Catch(i, w.op, Unavailable(w.op))
           /\ UNCHANGED <<comments, outputs>>
  /\ UNCHANGED <<evars, pvars, comments0>>

Init ==
  /\ ParseIdle
  /\ RunIdle
  /\ EscapeIdle
  /\ comments \in InitialComments
  /\ comments0 = comments

Next ==
  \E i \in Invocations :
    \/ Start(i)
    \/ GetPR(i)
    \/ ListFiles(i)
    \/ BuildSearchQuery(i)
    \/ EmbedQuery(i)
    \/ QueryIndex(i)
    \/ Generate(i)
    \/ ListComments(i)
    \/ WriteComment(i)

Spec == Init /\ [][Next]_vars

(***************************************************************************)
(* Invocations on the same pull request that overlap: two workflow runs,   *)
(* each its own process, with the comments of the pull request the only    *)
(* thing between them.  An invocation may start while another is running;  *)
(* each await is one step.                                                 *)
(***************************************************************************)
\* getInput of the required inputs, the PR number and the repository, in a
\* process started whatever the other invocations are doing
StartOverlapping(i) ==
  /\ pc[i] = "idle"
  /\ \/ /\ Goto(i, "pulls.get")
        /\ \E dry \in BOOLEAN : local' = [local EXCEPT ![i].dryRun = dry]
        /\ UNCHANGED failure
     \/ Catch(i, "getInput", <<"Required input 'github_token' not provided">>)
     \/ Catch(i, "getInput", <<"Could not determine PR number or repository">>)
  /\ UNCHANGED <<evars, pvars, calls, errors, outputs, comments, comments0>>

NextOverlapping ==
  \E i \in Invocations :
    \/ StartOverlapping(i)
    \/ GetPR(i)
    \/ ListFiles(i)
    \/ BuildSearchQuery(i)
    \/ EmbedQuery(i)
    \/ QueryIndex(i)
    \/ Generate(i)
    \/ ListComments(i)
    \/ WriteComment(i)

SpecOverlapping == Init /\ [][NextOverlapping]_vars

(***************************************************************************)
(* Properties of run() and of the comment upsert.                          *)
(***************************************************************************)
WriteOps == {"createComment", "updateComment"}
WriteCalls(log) == {k \in 1..Len(log) : log[k].op \in WriteOps}

\* the comments of a list whose body holds the marker phrase
MarkerAt(list) == {k \in 1..Len(list) : Holds(list[k].body, BotMarker)}
FirstMarker(list) == CHOOSE k \in MarkerAt(list) : \A j \in MarkerAt(list) : k <= j

\* invocation i ran to its end and posted
Wrote(i) == pc[i] = "done" /\ WriteCalls(calls[i]) # {}

\* postComment makes its write call in this step
WriteStep(i) == pc[i] = "write" /\ pc'[i] # "write"

C3UpdatesFirst ==
  [][\A i \in Invocations :
       WriteStep(i) /\ MarkerAt(local[i].listed) # {} =>
         /\ calls'[i] = Append(calls[i],
              [op |-> "updateComment",
               comment_id |-> local[i].listed[FirstMarker(local[i].listed)].id,
               issue_number |-> "-", body |-> local[i].body, returned |-> <<>>])
         /\ \A k \in WriteCalls(calls'[i]) : k = Len(calls'[i])]_vars

C3Witness ==
  /\ Len(comments0) = 2
  /\ MarkerAt(comments0) = {1, 2}
  /\ pc[1] = "done"
  /\ calls[1][Len(calls[1])].op = "updateComment"
  /\ calls[1][Len(calls[1])].comment_id = 1
  /\ comments[1].body # comments0[1].body
  /\ comments[2] = comments0[2]

\* C4: when no listed comment holds the marker, the empty list included,
\* postComment issues exactly one createComment with the new body for the
\* pull request and no updateComment; whatever the list, one invocation
\* issues exactly one write call.
C4CreatesOnce ==
  [][\A i \in Invocations :
       WriteStep(i) =>
         /\ Cardinality(WriteCalls(calls'[i])) = 1
         /\ Len(calls'[i]) = Len(calls[i]) + 1
         /\ MarkerAt(local[i].listed) = {} =>
              calls'[i] = Append(calls[i],
                [op |-> "createComment", comment_id |-> 0, issue_number |-> "pr",
                 body |-> local[i].body, returned |-> <<>>])]_vars

C4Witness ==
  /\ comments0 = <<>>
  /\ pc[1] = "done"
  /\ calls[1][Len(calls[1])].op = "createComment"
  /\ Len(comments) = 1
  /\ pc[2] = "done"
  /\ Len(comments0) = 0
  /\ calls[2][Len(calls[2])].op = "updateComment"

\* the run failed before postComment made its write call
FailedUpstream(i) ==
  /\ failure[i] # <<>>
  /\ errors[i] = <<>> \/ errors[i][Len(errors[i])].call \notin WriteOps

\* C5: a run in which an error occurs upstream of the comment write ends in
\* the failed state and has issued, and will issue, neither a createComment
\* nor an updateComment call.
C5NoWriteAfterFailure ==
  \A i \in Invocations :
    /\ failure[i] # <<>> => pc[i] = "failed"
    /\ FailedUpstream(i) => WriteCalls(calls[i]) = {}

C5Witness ==
  /\ pc[1] = "failed"
  /\ failure[1] = <<"Bot failed: ", NoResponse>>
  /\ calls[1][Len(calls[1])].op = "generateContent.suggest"
  /\ WriteCalls(calls[1]) = {}
  /\ pc[2] = "failed"
  /\ failure[2] = <<"Bot failed: ", "TypeError">>

\* C6 as stated: a failure of any collaborator call, the search-query
\* summarisation call included, ends the run failed with that call's
\* message, the failed call being the last step taken.
C6AllTerminal ==
  \A i \in Invocations :
    \A k \in 1..Len(errors[i]) :
      /\ pc[i] = "failed"
      /\ failure[i] = <<"Bot failed: ">> \o errors[i][k].message
      /\ calls[i][Len(calls[i])].op = errors[i][k].call

\* C6 amended: a failure of a call to the search collaborator, of the
\* suggestion call to the LLM collaborator, of the PR fetch or of the comment
\* transport ends the run failed with the originating message, and no later
\* step is taken; no call is issued twice; a failure of the search-query
\* summarisation call is not terminal: the run goes on to the search with
\* the raw PR text as the query.
C6Terminal ==
  \A i \in Invocations :
    /\ \A k, j \in 1..Len(calls[i]) : calls[i][k].op = calls[i][j].op => k = j
    /\ \A k \in 1..Len(errors[i]) :
         IF errors[i][k].call = "generateContent.search"
         THEN /\ k = 1
              /\ pc[i] \notin {"buildSearchQuery", "pulls.get", "pulls.listFiles"}
              /\ pc[i] = "embedContent" => local[i].query = "base" /\ failure[i] = <<>>
              /\ pc[i] = "failed" => calls[i][Len(calls[i])].op # "generateContent.search"
         ELSE /\ k = Len(errors[i])
              /\ pc[i] = "failed"
              /\ failure[i] = <<"Bot failed: ">> \o errors[i][k].message
              /\ calls[i][Len(calls[i])].op = errors[i][k].call

C6Witness ==
  /\ pc[1] = "failed"
  /\ Len(errors[1]) = 2
  /\ errors[1][1].call = "generateContent.search"
  /\ errors[1][2].call = "index.query"
  /\ failure[1] = <<"Bot failed: ", "index.query", "unavailable">>
  /\ pc[2] = "failed"
  /\ errors[2] = <<[call |-> "createComment", message |-> Unavailable("createComment")]>>

(***************************************************************************)
(* Properties of escapeNewlinesInStrings.  Where a position stands is      *)
(* told from the text alone: by the double quotes before it and by the     *)
(* length of the run of backslashes right before it.                       *)
(***************************************************************************)
\* the number of backslashes that stand in a row right before position k
BackslashRun(text, k) ==
  LET starts == {j \in 1..k : \A m \in j..(k - 1) : text[m] = BS}
  IN k - (CHOOSE j \in starts : \A other \in starts : j <= other)

\* position k stands inside a string literal: a double quote before it has
\* opened a string, and no double quote after an even run of backslashes
\* has closed it
RECURSIVE InsideString(_, _)
InsideString(text, k) ==
  IF k <= 1 THEN FALSE
  ELSE IF text[k - 1] # DQ THEN InsideString(text, k - 1)
  ELSE IF ~InsideString(text, k - 1) THEN TRUE
  ELSE BackslashRun(text, k - 1) % 2 = 1

\* the character at k stands inside a string right after an escaping backslash
Escaped(text, k) == InsideString(text, k) /\ BackslashRun(text, k) % 2 = 1

\* the same, were a backslash to escape the next character wherever it stands
RECURSIVE InsideAlways(_, _)
InsideAlways(text, k) ==
  IF k <= 1 THEN FALSE
  ELSE IF text[k - 1] = DQ /\ BackslashRun(text, k - 1) % 2 = 0
  THEN ~InsideAlways(text, k - 1)
  ELSE InsideAlways(text, k - 1)

\* what the scan is to put out for the character at k
Piece(text, k) ==
  IF InsideString(text, k) /\ ~Escaped(text, k) /\ text[k] = LF THEN <<BS, "n">>
  ELSE IF InsideString(text, k) /\ ~Escaped(text, k) /\ text[k] = CR THEN <<>>
  ELSE <<text[k]>>

RECURSIVE Pieces(_, _)
Pieces(text, k) == IF k = 0 THEN <<>> ELSE Pieces(text, k - 1) \o Piece(text, k)

\* the loop reads the character at epos in this step
Scans == epos >= 1 /\ epos <= Len(einput) /\ epos' = epos + 1

C12ValidUnchanged ==
  eout.returned /\ JSONParse(einput).ok => eout.out = einput

C12Witness ==
  /\ einput = <<DQ, BS, DQ, DQ>>
  /\ JSONParse(einput).ok
  /\ eout.returned
  /\ eout.out = einput

\* C13: a character outside a string literal is copied to the output as it
\* is, in its place; only at a position inside a string literal does the
\* output differ from the input character.
C13OutsideCopied ==
  [][Scans =>
       /\ ~InsideString(einput, epos) => est'.out = Append(est.out, einput[epos])
       /\ est'.out # Append(est.out, einput[epos]) => InsideString(einput, epos)]_vars

C13Witness ==
  /\ einput = <<LF, CR, DQ, LF>>
  /\ eout = [returned |-> TRUE, out |-> <<LF, CR, DQ, BS, "n">>]

C17AlwaysEscapes == epos >= 1 => est.inString = InsideAlways(einput, epos)

\* C17 amended: inside a string literal a backslash escapes the character
\* after it and the pair is copied as it is, an escaped double quote leaving
\* the scan inside the string; every other double quote toggles the state,
\* and outside a string a backslash escapes nothing; when the input ends,
\* inside a string or not, what was put out so far is returned and nothing
\* more.
C17Scan ==
  /\ epos >= 1 =>
       /\ est.inString = InsideString(einput, epos)
       /\ est.out = Pieces(einput, epos - 1)
  /\ epos > 1 /\ Escaped(einput, epos - 1) =>
       /\ est.inString
       /\ Len(est.out) >= 2
       /\ SubSeq(est.out, Len(est.out) - 1, Len(est.out)) = <<BS, einput[epos - 1]>>
  /\ eout.returned => eout.out = Pieces(einput, Len(einput))

C17Witness ==
  /\ einput = <<DQ, BS, DQ, LF>>
  /\ est.inString
  /\ eout = [returned |-> TRUE, out |-> <<DQ, BS, DQ, BS, "n">>]

(***************************************************************************)
(* Properties of the enrichment step.  The suggestions before enrichment   *)
(* are those of parsed, the ones after it those of the returned value.     *)
(***************************************************************************)
Enriched == Done /\ parsed # NotParsed /\ ~result.raised

SugsIn == GetProp(parsed.val, Key("suggestions")).a
SugsOut == GetProp(result.val, Key("suggestions")).a

LineKeys == {Key("start_line"), Key("end_line")}

\* the records whose file is the very value of the suggestion's target_file
Matches(sug) ==
  {m \in 1..Len(given.docs) : GetProp(sug, Key("target_file")) = JStr(given.docs[m].file)}

FirstMatch(sug) == CHOOSE m \in Matches(sug) : \A n \in Matches(sug) : m <= n

\* C15: enrichment returns as many suggestions as it was given, in the same
\* order, every field the model wrote other than the two line fields
\* unchanged (those of the set included), and the start_line and end_line of
\* a suggestion are the startLine and endLine of the first record, in the
\* order supplied, whose file equals its target_file exactly.
C15EnrichmentKeepsSequence ==
  Enriched =>
    /\ \A key \in DOMAIN parsed.val.f \ {Key("suggestions")} :
         GetProp(result.val, key) = parsed.val.f[key]
    /\ Len(SugsOut) = Len(SugsIn)
    /\ \A k \in 1..Len(SugsIn) :
         /\ SugsOut[k].t = "obj"
         /\ SugsIn[k].t = "obj" =>
              /\ DOMAIN SugsOut[k].f = DOMAIN SugsIn[k].f \cup LineKeys
              /\ \A key \in DOMAIN SugsIn[k].f \ LineKeys :
                   SugsOut[k].f[key] = SugsIn[k].f[key]
         /\ Matches(SugsIn[k]) # {} =>
              /\ GetProp(SugsOut[k], Key("start_line"))
                   = JNum(given.docs[FirstMatch(SugsIn[k])].startLine)
              /\ GetProp(SugsOut[k], Key("end_line"))
                   = JNum(given.docs[FirstMatch(SugsIn[k])].endLine)

\* two suggestions against three records: the second and third record are
\* about the first suggestion's file, the first record about the second's
C15Witness ==
  /\ Enriched
  /\ Len(given.docs) = 3
  /\ Len(SugsIn) = 2
  /\ GetProp(SugsIn[1], Key("target_file")) = JStr(FileA)
  /\ GetProp(SugsIn[2], Key("target_file")) = JStr(FileB)
  /\ Cardinality(Matches(SugsIn[1])) = 2
  /\ FirstMatch(SugsIn[1]) = 2
  /\ GetProp(SugsOut[1], Key("start_line")) = JNum(10)
  /\ GetProp(SugsOut[1], Key("end_line")) = JNum(20)
  /\ GetProp(SugsOut[2], Key("start_line")) = JNum(1)
  /\ GetProp(SugsOut[2], Key("suggested_text")) = JStr(<<"u">>)

\* C16: after enrichment a suggestion has a start_line value, and an
\* end_line value, exactly if some record's file equals its target_file;
\* the values are then the record's, and without a matching record the
\* fields hold nothing even if the model wrote line numbers itself.
C16LinesIffMatch ==
  Enriched =>
    \A k \in 1..Len(SugsIn) :
      /\ \A key \in LineKeys :
           GetProp(SugsOut[k], key) # Undefined <=> Matches(SugsIn[k]) # {}
      /\ Matches(SugsIn[k]) # {} =>
           /\ GetProp(SugsOut[k], Key("start_line")).n
                \in {given.docs[m].startLine : m \in Matches(SugsIn[k])}
           /\ GetProp(SugsOut[k], Key("end_line")).n
                \in {given.docs[m].endLine : m \in Matches(SugsIn[k])}

\* the model wrote line numbers for a file that no record is about
C16Witness ==
  /\ Enriched
  /\ Len(SugsIn) = 1
  /\ GetProp(SugsIn[1], Key("start_line")) = JNum(1)
  /\ GetProp(SugsIn[1], Key("end_line")) = JNum(1)
  /\ Matches(SugsIn[1]) = {}
  /\ GetProp(SugsOut[1], Key("start_line")) = Undefined
  /\ GetProp(SugsOut[1], Key("end_line")) = Undefined

(***************************************************************************)
(* Properties of the fence strip and the backtick purge.                   *)
(***************************************************************************)
Tick3(text, p) ==
  p >= 1 /\ p + 2 <= Len(text) /\ \A d \in 0..2 : text[p + d] = BT

JsonTags == {"json", "JSON"}

\* a fenced block: an opening triple backtick at o and a closing one at c,
\* with the three opening backticks in front of the closing ones
Blocks(text) ==
  LET ticks == {p \in 1..Len(text) : Tick3(text, p)}
  IN {oc \in ticks \X ticks : oc[2] >= oc[1] + 3}

\* where the content of the block opened at o begins: behind the opening
\* backticks, the tag if there is one, and the white space that follows
ContentStart(text, o) ==
  LET tagged == IF text[o + 3] \in JsonTags THEN o + 4 ELSE o + 3
  IN CHOOSE p \in tagged..(Len(text) + 1) :
       /\ \A q \in tagged..(p - 1) : text[q] \in WhiteSpace
       /\ p <= Len(text) => text[p] \notin WhiteSpace

\* the content of the first fenced block: from its beginning to the first
\* closing triple backtick
FirstBlockContent(text) ==
  LET o == CHOOSE o \in {oc[1] : oc \in Blocks(text)} :
             \A oc \in Blocks(text) : o <= oc[1]
      from == ContentStart(text, o)
      c == CHOOSE c \in from..Len(text) :
             Tick3(text, c) /\ \A b \in from..(c - 1) : ~Tick3(text, b)
  IN SubSeq(text, from, c - 1)

FenceStripped == pstage \in {"sanitize", "parse", "brace", "enrich", "done"}
Purged == pstage \in {"parse", "brace", "enrich", "done"}

\* text without the white space at its two ends
Trimmed(text, whole) ==
  LET solid == {k \in 1..Len(whole) : whole[k] \notin WhiteSpace}
  IN IF solid = {} THEN text = <<>>
     ELSE text = SubSeq(whole, CHOOSE i \in solid : \A k \in solid : i <= k,
                               CHOOSE j \in solid : \A k \in solid : j >= k)

\* C19: when the raw text holds one or more fenced blocks, with or without
\* the json tag, the text passed on is the content of the first block and
\* nothing else; when it holds none, it is the whole raw text; either way
\* the text given to the escaper holds no triple backtick and neither
\* begins nor ends with white space, and is the text passed on without its
\* outer white space if that text holds no triple backtick.
C19FirstFenceOnly ==
  /\ FenceStripped =>
       jsonString = IF Blocks(rawText) # {} THEN FirstBlockContent(rawText) ELSE rawText
  /\ Purged =>
       /\ \A p \in 1..Len(purged) : ~Tick3(purged, p)
       /\ purged # <<>> =>
            purged[1] \notin WhiteSpace /\ purged[Len(purged)] \notin WhiteSpace
       /\ (\A p \in 1..Len(jsonString) : ~Tick3(jsonString, p)) =>
            Trimmed(purged, jsonString)

\* two fenced blocks, the first tagged: only the first one's content is kept
C19Witness ==
  /\ Done
  /\ rawText = Fence \o <<"json", LF, "{", "}", LF>> \o Fence \o <<SP>> \o Fence \o <<"x">> \o Fence
  /\ Cardinality(Blocks(rawText)) > 1
  /\ jsonString = <<"{", "}", LF>>
  /\ purged = <<"{", "}">>

(***************************************************************************)
(* Properties of the DRY_RUN switch of run().                              *)
(***************************************************************************)
TransportOps == {"listComments", "createComment", "updateComment"}
TransportCalls(log) == {k \in 1..Len(log) : log[k].op \in TransportOps}
ListCalls(log) == {k \in 1..Len(log) : log[k].op = "listComments"}

\* generateSuggestions has returned a response to invocation i in this step
Answered(i) == pc[i] = "generateContent" /\ pc'[i] \notin {"generateContent", "failed"}

\* C20: a run with DRY_RUN true that gets its response makes no call on the
\* comment transport, neither list nor create nor update, and ends done with
\* no failure and its outputs set; a run with any other DRY_RUN that gets its
\* response goes on to postComment with the formatted comment, and
\* postComment is entered once: it lists the comments once and writes at
\* most once.
C20DryRunNoWrite ==
  [][\A i \in Invocations :
       /\ local[i].dryRun =>
            /\ pc'[i] \notin {"listComments", "write"}
            /\ TransportCalls(calls'[i]) = {}
       /\ Answered(i) /\ local[i].dryRun =>
            /\ pc'[i] = "done"
            /\ failure'[i] = <<>>
            /\ outputs'[i].set
       /\ Answered(i) /\ ~local[i].dryRun =>
            /\ pc'[i] = "listComments"
            /\ Holds(local'[i].body, BotMarker)
            /\ TransportCalls(calls'[i]) = {}
            /\ ~outputs'[i].set
       /\ pc'[i] = "listComments" => pc[i] \in {"generateContent", "listComments"}
       /\ pc[i] = "listComments" /\ pc'[i] # "listComments" =>
            /\ Cardinality(ListCalls(calls'[i])) = 1
            /\ WriteCalls(calls'[i]) = {}
       /\ pc[i] = "write" /\ pc'[i] # "write" =>
            /\ Cardinality(ListCalls(calls'[i])) = 1
            /\ Cardinality(WriteCalls(calls'[i])) = 1
       /\ pc[i] # "done" /\ pc'[i] = "done" =>
            /\ outputs'[i].set
            /\ pc[i] \in {"generateContent", "write"}]_vars

\* the first invocation was a dry run that ended done after its response,
\* the second posted
C20Witness ==
  /\ pc[1] = "done"
  /\ calls[1] # <<>>
  /\ calls[1][Len(calls[1])].op = "generateContent.suggest"
  /\ TransportCalls(calls[1]) = {}
  /\ outputs[1].set
  /\ outputs[1].suggestions_count = 1
  /\ failure[1] = <<>>
  /\ comments = comments0
  /\ pc[2] = "write"
  /\ Cardinality(ListCalls(calls[2])) = 1
  /\ WriteCalls(calls[2]) = {}

(***************************************************************************)
(* Properties of invocations that overlap.                                 *)
(***************************************************************************)
\* C18: whatever the interleaving of the list and write steps of two
\* invocations on the same pull request, the comments they leave are ones
\* that the two invocations run one after the other would leave; so comments
\* that began without a marker comment never end up with two of them.
C18NoWriteRace ==
  MarkerAt(comments0) = {} => Cardinality(MarkerAt(comments)) <= 1

====
